---------------------------- MODULE Spec2Model ----------------------------
(***************************************************************************)
(* UNBOUND: the chapter store of MainWindow, the dual-mode editor of        *)
(* WritingPanel and the statistics of AnalysisPanel / Chapter.              *)
(*                                                                          *)
(* A text (QString) is a sequence of symbols.  A symbol is a word, one      *)
(* whitespace character (space or newline), a Markdown marker or an HTML    *)
(* tag.  Markdown texts hold no tag.                                        *)
(***************************************************************************)
EXTENDS Integers, Sequences, FiniteSets, TLC

(***************************************************************************)
(* Bounds of the model.                                                     *)
(***************************************************************************)
\* number of structure items the user selects among (item_0 .. item_{N-1})
NumItems == 2
\* longest text, in symbols, that the user types or imports
MaxLen == 5
\* most constructs in a Markdown text fed to the converter on its own
MaxPieces == 3
\* the longest text the statistics are taken of, in symbols
MaxText == 5

(***************************************************************************)
(* Symbols.                                                                 *)
(***************************************************************************)
\* the characters the regular expression class of whitespace matches
Whitespace == {" ", "\n"}

\* the backtick is no character of a TLA+ string: the inline code marker is the symbol BACKTICK
InlineMarkers == {"**", "*", "~~", "BACKTICK"}

BlockPrefixes == {"#", "-", "1.", ">"}

Rule == "---"

\* the line of three backticks that opens and closes a fenced code block
Fence == "FENCE"

StyleOpen(m) ==
  CASE m = "**" -> "<b>" [] m = "*" -> "<i>" [] m = "~~" -> "<s>" [] m = "BACKTICK" -> "<code>"

StyleClose(m) ==
  CASE m = "**" -> "</b>" [] m = "*" -> "</i>" [] m = "~~" -> "</s>" [] m = "BACKTICK" -> "</code>"

BlockOpen(k) ==
  CASE k = "p" -> "<p>" [] k = "#" -> "<h1>" [] k = "-" -> "<ul>" [] k = "1." -> "<ol>"
    [] k = ">" -> "<blockquote>" [] k = "hr" -> "<hr>" [] k = "pre" -> "<pre>"

BlockClose(k) ==
  CASE k = "p" -> "</p>" [] k = "#" -> "</h1>" [] k = "-" -> "</ul>" [] k = "1." -> "</ol>"
    [] k = ">" -> "</blockquote>" [] k = "hr" -> "</hr>" [] k = "pre" -> "</pre>"

BlockKinds == {"p", "hr", "pre"} \cup BlockPrefixes

StyleOpenTags == {StyleOpen(m) : m \in InlineMarkers}

StyleCloseTags == {StyleClose(m) : m \in InlineMarkers}

BlockOpenTags == {BlockOpen(k) : k \in BlockKinds}

BlockCloseTags == {BlockClose(k) : k \in BlockKinds}

\* colour, highlight, font family and size: rich-text formats without a Markdown form
FontOpen == "<font>"

FontClose == "</font>"

HtmlTags == StyleOpenTags \cup StyleCloseTags \cup BlockOpenTags \cup BlockCloseTags
              \cup {FontOpen, FontClose}

StyleOfTag(t) == CHOOSE m \in InlineMarkers : StyleOpen(m) = t

KindOfTag(t) == CHOOSE k \in BlockKinds : BlockOpen(k) = t

(***************************************************************************)
(* Sequence helpers.                                                        *)
(***************************************************************************)
\* index of the first element of t at or after position from that is in set S, 0 if none
FirstIn(t, from, S) ==
  IF \E i \in from..Len(t) : t[i] \in S
  THEN CHOOSE i \in from..Len(t) : t[i] \in S /\ \A j \in from..(i - 1) : t[j] \notin S
  ELSE 0

RECURSIVE SplitOn(_, _)
\* QString::split(sep, KeepEmptyParts) for a one-symbol separator
SplitOn(t, sep) ==
  LET k == FirstIn(t, 1, {sep})
  IN IF k = 0 THEN <<t>>
     ELSE <<SubSeq(t, 1, k - 1)>> \o SplitOn(SubSeq(t, k + 1, Len(t)), sep)

RECURSIVE JoinWith(_, _)
JoinWith(parts, sep) ==
  IF parts = <<>> THEN <<>>
  ELSE IF Len(parts) = 1 THEN parts[1]
  ELSE parts[1] \o sep \o JoinWith(Tail(parts), sep)

RECURSIVE CollapseWs(_)
\* every whitespace run becomes one space
CollapseWs(t) ==
  IF t = <<>> THEN <<>>
  ELSE IF Head(t) \in Whitespace
       THEN IF Len(t) > 1 /\ t[2] \in Whitespace THEN CollapseWs(Tail(t))
            ELSE <<" ">> \o CollapseWs(Tail(t))
       ELSE <<Head(t)>> \o CollapseWs(Tail(t))

RECURSIVE TrimLeft(_)
TrimLeft(t) == IF t # <<>> /\ Head(t) \in Whitespace THEN TrimLeft(Tail(t)) ELSE t

RECURSIVE TrimRight(_)
TrimRight(t) ==
  IF t # <<>> /\ t[Len(t)] \in Whitespace THEN TrimRight(SubSeq(t, 1, Len(t) - 1)) ELSE t

Trim(t) == TrimRight(TrimLeft(t))

\* whitespace normalisation: the text with every whitespace run collapsed and the ends trimmed
Normalize(t) == Trim(CollapseWs(t))

\* a text holds no HTML tag
IsMarkdown(t) == \A i \in 1..Len(t) : t[i] \notin HtmlTags

(***************************************************************************)
(* The rich document (QTextDocument of the rich editor): a sequence of      *)
(* blocks [kind, spans]; a span is [style, color, text].                    *)
(***************************************************************************)
Span(style, color, text) == [style |-> style, color |-> color, text |-> text]

Block(kind, spans) == [kind |-> kind, spans |-> spans]

RECURSIVE MergePlain(_)
\* adjacent unstyled spans of one colour are one run of text
MergePlain(spans) ==
  IF Len(spans) < 2 THEN spans
  ELSE LET a == spans[1]
           b == spans[2]
       IN IF a.style = "" /\ b.style = "" /\ a.color = b.color
          THEN MergePlain(<<Span("", a.color, a.text \o b.text)>> \o SubSeq(spans, 3, Len(spans)))
          ELSE <<a>> \o MergePlain(Tail(spans))

RECURSIVE ParseInline(_)
\* marker text marker is a styled span; a marker that is never closed is literal text
ParseInline(s) ==
  IF s = <<>> THEN <<>>
  ELSE LET m == Head(s)
           j == IF m \in InlineMarkers THEN FirstIn(s, 2, {m}) ELSE 0
       IN IF j > 2
          THEN <<Span(m, FALSE, SubSeq(s, 2, j - 1))>> \o ParseInline(SubSeq(s, j + 1, Len(s)))
          ELSE <<Span("", FALSE, <<m>>)>> \o ParseInline(Tail(s))

Inline(s) == MergePlain(ParseInline(s))

Para(p) == IF Normalize(p) = <<>> THEN <<>> ELSE <<Block("p", Inline(Normalize(p)))>>

Pre(code) == Block("pre", IF code = <<>> THEN <<>> ELSE <<Span("", FALSE, code)>>)

RECURSIVE BlocksOf(_, _)
\* the blocks of the lines of a Markdown text; para is the paragraph being gathered
BlocksOf(lines, para) ==
  IF lines = <<>> THEN Para(para)
  ELSE LET l == Head(lines)
           rest == Tail(lines)
           t == Normalize(l)
           close == FirstIn(rest, 1, {<<Fence>>})
       IN IF t = <<>> THEN Para(para) \o BlocksOf(rest, <<>>)
          ELSE IF t = <<Fence>> /\ close > 0
          THEN Para(para) \o <<Pre(JoinWith(SubSeq(rest, 1, close - 1), <<"\n">>))>>
                 \o BlocksOf(SubSeq(rest, close + 1, Len(rest)), <<>>)
          ELSE IF t = <<Rule>> THEN Para(para) \o <<Block("hr", <<>>)>> \o BlocksOf(rest, <<>>)
          ELSE IF t[1] \in BlockPrefixes /\ (Len(t) = 1 \/ t[2] = " ")
          THEN Para(para) \o <<Block(t[1], Inline(SubSeq(t, 3, Len(t))))>> \o BlocksOf(rest, <<>>)
          ELSE BlocksOf(rest, para \o <<" ">> \o t)

MdToDoc(md) == BlocksOf(SplitOn(md, "\n"), <<>>)

SpanHtml(sp) ==
  (IF sp.style = "" THEN <<>> ELSE <<StyleOpen(sp.style)>>)
    \o (IF sp.color THEN <<FontOpen>> ELSE <<>>) \o sp.text
    \o (IF sp.color THEN <<FontClose>> ELSE <<>>)
    \o (IF sp.style = "" THEN <<>> ELSE <<StyleClose(sp.style)>>)

BlockHtml(b) ==
  <<BlockOpen(b.kind)>> \o JoinWith([i \in 1..Len(b.spans) |-> SpanHtml(b.spans[i])], <<>>)
    \o <<BlockClose(b.kind)>>

\* the HTML text of a document
DocToHtml(doc) == JoinWith([i \in 1..Len(doc) |-> BlockHtml(doc[i])], <<>>)

Flush(style, color, cur) == IF cur = <<>> THEN <<>> ELSE <<Span(style, color, cur)>>

RECURSIVE ParseSpans(_, _, _, _)
\* the spans of the inside of a block: a tag ends the span cur gathered so far
ParseSpans(h, style, color, cur) ==
  IF h = <<>> THEN Flush(style, color, cur)
  ELSE LET x == Head(h)
       IN IF x \in StyleOpenTags
          THEN Flush(style, color, cur) \o ParseSpans(Tail(h), StyleOfTag(x), color, <<>>)
          ELSE IF x \in StyleCloseTags
          THEN Flush(style, color, cur) \o ParseSpans(Tail(h), "", color, <<>>)
          ELSE IF x = FontOpen
          THEN Flush(style, color, cur) \o ParseSpans(Tail(h), style, TRUE, <<>>)
          ELSE IF x = FontClose
          THEN Flush(style, color, cur) \o ParseSpans(Tail(h), style, FALSE, <<>>)
          ELSE ParseSpans(Tail(h), style, color, cur \o <<x>>)

RECURSIVE MergeRuns(_)
\* QTextDocument keeps adjacent fragments of one format as one fragment
MergeRuns(spans) ==
  IF Len(spans) < 2 THEN spans
  ELSE LET a == spans[1]
           b == spans[2]
       IN IF a.style = b.style /\ a.color = b.color
          THEN MergeRuns(<<Span(a.style, a.color, a.text \o b.text)>> \o SubSeq(spans, 3, Len(spans)))
          ELSE <<a>> \o MergeRuns(Tail(spans))

RECURSIVE HtmlToDoc(_)
\* the document of an HTML text; text outside any block is a paragraph of its own
HtmlToDoc(h) ==
  IF h = <<>> THEN <<>>
  ELSE IF Head(h) \in BlockOpenTags /\ FirstIn(h, 2, {BlockClose(KindOfTag(Head(h)))}) > 0
  THEN LET k == KindOfTag(Head(h))
           c == FirstIn(h, 2, {BlockClose(k)})
       IN <<Block(k, ParseSpans(SubSeq(h, 2, c - 1), "", FALSE, <<>>))>>
            \o HtmlToDoc(SubSeq(h, c + 1, Len(h)))
  ELSE LET n == FirstIn(h, 2, BlockOpenTags)
           e == IF n = 0 THEN Len(h) ELSE n - 1
       IN <<Block("p", ParseSpans(SubSeq(h, 1, e), "", FALSE, <<>>))>>
            \o HtmlToDoc(SubSeq(h, e + 1, Len(h)))

\* a span written without its markers
SpanMd_NoMarkers(sp) == sp.text

SpanMd(sp) == IF sp.style = "" THEN sp.text ELSE <<sp.style>> \o sp.text \o <<sp.style>>

SpansMd(spans) == JoinWith([i \in 1..Len(spans) |-> SpanMd(spans[i])], <<>>)

BlockMd(b) ==
  CASE b.kind = "p" -> SpansMd(b.spans)
    [] b.kind = "hr" -> <<Rule>>
    [] b.kind = "pre" -> <<Fence, "\n">> \o SpansMd(b.spans) \o <<"\n", Fence>>
    [] OTHER -> <<b.kind, " ">> \o SpansMd(b.spans)

\* the Markdown text of a document: the blocks, a blank line between two of them
DocToMd(doc) == JoinWith([i \in 1..Len(doc) |-> BlockMd(doc[i])], <<"\n", "\n">>)

(***************************************************************************)
(* MarkdownConverter (core/MarkdownConverter.hpp).                          *)
(***************************************************************************)
markdownToHtml(markdown) == DocToHtml(MdToDoc(markdown))

htmlToMarkdown(html) == DocToMd(HtmlToDoc(html))

(***************************************************************************)
(* The two editor widgets.                                                  *)
(***************************************************************************)
\* QTextEdit::toHtml
toHtml(doc) == DocToHtml(doc)

\* the document QTextEdit::setHtml builds
FromHtml(html) ==
  LET d == HtmlToDoc(html) IN [i \in 1..Len(d) |-> Block(d[i].kind, MergeRuns(d[i].spans))]

\* QTextEdit::toPlainText: the text of the blocks, one line each, no markup
RichPlainText(doc) ==
  JoinWith([i \in 1..Len(doc) |->
              JoinWith([j \in 1..Len(doc[i].spans) |-> doc[i].spans[j].text], <<>>)],
           <<"\n">>)

(***************************************************************************)
(* Text statistics.                                                         *)
(***************************************************************************)
\* number of characters of a symbol
SymLen(x) ==
  CASE x \in {"Hello", "world", "draft", "three"} -> 5
    [] x \in {"one", "two", Rule, Fence} -> 3
    [] x \in {"**", "~~", "1."} -> 2
    [] OTHER -> 1

RECURSIVE CharLen(_)
\* QString::length
CharLen(t) == IF t = <<>> THEN 0 ELSE SymLen(Head(t)) + CharLen(Tail(t))

\* the split keeping its empty parts: one part more than there are whitespace runs
SplitWordsSize_KeepEmpty(t) ==
  Cardinality({i \in 1..Len(t) : t[i] \in Whitespace /\ (i = 1 \/ t[i - 1] \notin Whitespace)}) + 1

\* text.split(QRegularExpression("\\s+"), Qt::SkipEmptyParts).size()
SplitWordsSize(t) ==
  Cardinality({i \in 1..Len(t) : t[i] \notin Whitespace /\ (i = 1 \/ t[i - 1] \in Whitespace)})

\* text.remove(QRegularExpression("\\s+"))
RemoveWhitespace(t) == SelectSeq(t, LAMBDA x : x \notin Whitespace)

\* end of the whitespace run that starts at i
RunEnd(t, i) ==
  CHOOSE j \in i..Len(t) :
    /\ \A k \in i..j : t[k] \in Whitespace
    /\ (j = Len(t) \/ t[j + 1] \notin Whitespace)

\* the last newline of the whitespace run that starts at i
LastNewline(t, i) ==
  CHOOSE j \in i..RunEnd(t, i) : t[j] = "\n" /\ \A k \in (j + 1)..RunEnd(t, i) : t[k] # "\n"

\* start of the leftmost match of the regular expression \n\s*\n in t, 0 if none
BlankLineAt(t) ==
  LET S == {i \in 1..Len(t) : t[i] = "\n" /\ LastNewline(t, i) > i}
  IN IF S = {} THEN 0 ELSE CHOOSE i \in S : \A j \in S : i <= j

RECURSIVE SplitParagraphs_KeepEmpty(_)
\* the split keeping its empty parts
SplitParagraphs_KeepEmpty(t) ==
  LET i == BlankLineAt(t)
  IN IF i = 0 THEN <<t>>
     ELSE <<SubSeq(t, 1, i - 1)>>
            \o SplitParagraphs_KeepEmpty(SubSeq(t, LastNewline(t, i) + 1, Len(t)))

RECURSIVE SplitParagraphs(_)
\* text.split(QRegularExpression("\\n\\s*\\n"), Qt::SkipEmptyParts)
SplitParagraphs(t) ==
  LET i == BlankLineAt(t)
  IN IF i = 0 THEN (IF t = <<>> THEN <<>> ELSE <<t>>)
     ELSE (IF i = 1 THEN <<>> ELSE <<SubSeq(t, 1, i - 1)>>)
            \o SplitParagraphs(SubSeq(t, LastNewline(t, i) + 1, Len(t)))

\* updateStats taking the average only of two paragraphs or more
updateStats_GuardOne(text) ==
  LET wordCount == SplitWordsSize(text)
      charCount == CharLen(text)
      charCountNoSpaces == CharLen(RemoveWhitespace(text))
      paragraphCount == Len(SplitParagraphs(text))
      avgWordsPerParagraph ==
        IF paragraphCount > 1 THEN (20 * wordCount + paragraphCount) \div (2 * paragraphCount)
        ELSE 0
  IN [words |-> wordCount, chars |-> charCount, charsNoSpaces |-> charCountNoSpaces,
      paragraphs |-> paragraphCount, avgTenths |-> avgWordsPerParagraph]

\* AnalysisPanel::updateStats: the numbers its three labels show (the average in tenths)
updateStats(text) ==
  LET wordCount == SplitWordsSize(text)
      charCount == CharLen(text)
      charCountNoSpaces == CharLen(RemoveWhitespace(text))
      paragraphCount == Len(SplitParagraphs(text))
      avgWordsPerParagraph ==
        IF paragraphCount > 0 THEN (20 * wordCount + paragraphCount) \div (2 * paragraphCount)
        ELSE 0
  IN [words |-> wordCount, chars |-> charCount, charsNoSpaces |-> charCountNoSpaces,
      paragraphs |-> paragraphCount, avgTenths |-> avgWordsPerParagraph]

(***************************************************************************)
(* The program state.                                                       *)
(***************************************************************************)
VARIABLES
  m_currentMode,      \* WritingPanel::m_currentMode
  m_markdownEditor,   \* text of the QPlainTextEdit
  m_richTextEditor,   \* document of the QTextEdit
  m_editorStack,      \* the editor the QStackedWidget shows
  m_titleLabel,       \* WritingPanel::m_titleLabel
  chapters,           \* MainWindow::chapters, id -> [title, content]
  currentChapterId,   \* MainWindow::currentChapterId, "" when empty
  analysis,           \* the numbers the AnalysisPanel labels show
  structureWords,     \* the count the StructurePanel footer shows
  toggleChecked,      \* check state of the View menu's mode action
  formatEnabled,      \* whether the Format menu is enabled
  emitted,            \* signals, message boxes and editor loads of the last handler, in order
  lastOp,             \* the last handler run and its input
  switches,           \* the setEditorMode calls since the last other handler (at most 3)
  flow,               \* the edit of a chapter followed by selections only
  conv,               \* a text taken through the converter and back, on its own
  stat                \* a text and the counts the three word counters and updateStats give for it

core == <<m_currentMode, m_markdownEditor, m_richTextEditor, m_editorStack, m_titleLabel,
          chapters, currentChapterId, analysis, structureWords, toggleChecked, formatEnabled>>

vars == <<m_currentMode, m_markdownEditor, m_richTextEditor, m_editorStack, m_titleLabel,
          chapters, currentChapterId, analysis, structureWords, toggleChecked, formatEnabled,
          emitted, lastOp, switches, flow, conv, stat>>

MarkdownMode == "MarkdownMode"

RichTextMode == "RichTextMode"

EditorModes == {MarkdownMode, RichTextMode}

\* StructurePanel::buildDefaultStructure gives its items the ids item_0, item_1, ...
ItemIds == {"item_0", "item_1", "item_2", "item_3"}

ItemNo(id) ==
  CASE id = "item_0" -> 0 [] id = "item_1" -> 1 [] id = "item_2" -> 2 [] id = "item_3" -> 3

Ids == {id \in ItemIds : ItemNo(id) < NumItems}

\* the program state as one record, threaded through the calls of a handler
State ==
  [mode |-> m_currentMode, md |-> m_markdownEditor, rich |-> m_richTextEditor,
   stack |-> m_editorStack, title |-> m_titleLabel, chapters |-> chapters,
   cur |-> currentChapterId, analysis |-> analysis, structureWords |-> structureWords,
   toggleChecked |-> toggleChecked, formatEnabled |-> formatEnabled, log |-> <<>>]

\* getContentMarkdown giving the HTML of the rich editor unconverted
getContentMarkdown_Html(s) ==
  IF s.mode = MarkdownMode THEN s.md ELSE toHtml(s.rich)

\* QString WritingPanel::getContentMarkdown() const
getContentMarkdown(s) ==
  IF s.mode = MarkdownMode THEN s.md ELSE htmlToMarkdown(toHtml(s.rich))

\* int WritingPanel::wordCount() const
wordCount(s) ==
  SplitWordsSize(IF s.mode = MarkdownMode THEN s.md ELSE RichPlainText(s.rich))

\* int Chapter::wordCount() const
ChapterWordCount(ch) == SplitWordsSize(ch.content)

\* a signal, message box or editor load, with the mode an observer sees at that moment
Emit(s, sig, id, text, n) ==
  [s EXCEPT !.log = Append(@, [sig |-> sig, id |-> id, text |-> text, n |-> n, mode |-> s.mode])]

\* void Chapter::setTitle(const QString&)
setTitle(s, id, title) ==
  IF s.chapters[id].title # title
  THEN Emit([s EXCEPT !.chapters[id].title = title], "Chapter::titleChanged", id, <<>>, 0)
  ELSE s

\* setContent without its test for a change
setContent_Always(s, id, content) ==
  Emit([s EXCEPT !.chapters[id].content = content], "Chapter::contentChanged", id, content, 0)

\* void Chapter::setContent(const QString&)
setContent(s, id, content) ==
  IF s.chapters[id].content # content
  THEN Emit([s EXCEPT !.chapters[id].content = content], "Chapter::contentChanged", id, content, 0)
  ELSE s

\* saveCurrentChapter storing the plain text of the visible editor
saveCurrentChapter_PlainText(s) ==
  IF s.cur = "" \/ s.cur \notin DOMAIN s.chapters THEN s
  ELSE setContent(s, s.cur, IF s.mode = MarkdownMode THEN s.md ELSE RichPlainText(s.rich))

\* void MainWindow::saveCurrentChapter()
saveCurrentChapter(s) ==
  IF s.cur = "" \/ s.cur \notin DOMAIN s.chapters THEN s
  ELSE setContent(s, s.cur, getContentMarkdown(s))

\* the slot MainWindow::connectSignals connects to WritingPanel::contentChanged
onContentChanged(s, content) ==
  saveCurrentChapter([s EXCEPT !.analysis = updateStats(content),
                               !.structureWords = wordCount(s)])

\* the slot without its emit of contentChanged
markdownTextChanged_Silent(s) == Emit(s, "wordCountChanged", "", <<>>, wordCount(s))

\* the slot WritingPanel::setupMarkdownEditor connects to QPlainTextEdit::textChanged
markdownTextChanged(s) ==
  LET s1 == onContentChanged(Emit(s, "contentChanged", "", s.md, 0), s.md)
  IN Emit(s1, "wordCountChanged", "", <<>>, wordCount(s1))

\* the slot WritingPanel::setupRichTextEditor connects to QTextEdit::textChanged
richTextChanged(s) ==
  LET text == RichPlainText(s.rich)
      s1 == onContentChanged(Emit(s, "contentChanged", "", text, 0), text)
  IN Emit(s1, "wordCountChanged", "", <<>>, wordCount(s1))

\* QPlainTextEdit::setPlainText: replaces the text and emits textChanged
setPlainText(s, text) == markdownTextChanged([s EXCEPT !.md = text])

\* QTextEdit::setHtml: replaces the document and emits textChanged
setHtml(s, html) == richTextChanged([s EXCEPT !.rich = FromHtml(html)])

\* void WritingPanel::setContentMarkdown(const QString&)
setContentMarkdown(s, markdown) ==
  LET s0 == Emit(s, "setContentMarkdown", s.cur, markdown, 0)
  IN IF s0.mode = MarkdownMode THEN setPlainText(s0, markdown)
     ELSE setHtml(s0, markdownToHtml(markdown))

\* syncContentOnModeSwitch taking the plain text of the rich editor for its Markdown
syncContentOnModeSwitch_PlainText(s, fromMode, toMode) ==
  IF fromMode = MarkdownMode /\ toMode = RichTextMode
  THEN setHtml(s, markdownToHtml(s.md))
  ELSE IF fromMode = RichTextMode /\ toMode = MarkdownMode
  THEN setPlainText(s, RichPlainText(s.rich))
  ELSE s

\* void WritingPanel::syncContentOnModeSwitch(EditorMode, EditorMode)
syncContentOnModeSwitch(s, fromMode, toMode) ==
  IF fromMode = MarkdownMode /\ toMode = RichTextMode
  THEN setHtml(s, markdownToHtml(s.md))
  ELSE IF fromMode = RichTextMode /\ toMode = MarkdownMode
  THEN setPlainText(s, htmlToMarkdown(toHtml(s.rich)))
  ELSE s

\* void MainWindow::updateMenuStates()
updateMenuStates(s) == [s EXCEPT !.formatEnabled = (s.mode = RichTextMode)]

\* the slot MainWindow::setupViewMenu connects to WritingPanel::modeChanged
onModeChanged(s, mode) == updateMenuStates([s EXCEPT !.toggleChecked = (mode = RichTextMode)])

\* setEditorMode without its early return
setEditorMode_NoReturn(s, mode) ==
  LET oldMode == s.mode
      s1 == [s EXCEPT !.mode = mode]
      s2 == syncContentOnModeSwitch(s1, oldMode, mode)
      s3 == [s2 EXCEPT !.stack = mode]
  IN onModeChanged(Emit(s3, "modeChanged", "", getContentMarkdown(s3), 0), mode)

\* setEditorMode emitting modeChanged before it syncs the editors
setEditorMode_EmitFirst(s, mode) ==
  IF s.mode = mode THEN s
  ELSE LET oldMode == s.mode
           s1 == [s EXCEPT !.mode = mode]
           s2 == onModeChanged(Emit(s1, "modeChanged", "", getContentMarkdown(s1), 0), mode)
           s3 == syncContentOnModeSwitch(s2, oldMode, mode)
       IN [s3 EXCEPT !.stack = mode]

\* void WritingPanel::setEditorMode(EditorMode)
setEditorMode(s, mode) ==
  IF s.mode = mode THEN s
  ELSE LET oldMode == s.mode
           s1 == [s EXCEPT !.mode = mode]
           s2 == syncContentOnModeSwitch(s1, oldMode, mode)
           s3 == [s2 EXCEPT !.stack = mode]
       IN onModeChanged(Emit(s3, "modeChanged", "", getContentMarkdown(s3), 0), mode)

\* the slot MainWindow::setupViewMenu connects to the mode action's triggered signal
onToggleModeTriggered(s) ==
  IF s.toggleChecked THEN setEditorMode(s, RichTextMode) ELSE setEditorMode(s, MarkdownMode)

\* a Chapter as its constructor leaves it
NewChapter == [title |-> "", content |-> <<>>]

\* onStructureItemSelected loading the editor before it sets currentChapterId
onStructureItemSelected_LoadFirst(s, id) ==
  LET s1 == saveCurrentChapter(s)
      s2 == IF id \notin DOMAIN s1.chapters
            THEN setTitle([s1 EXCEPT !.chapters =
                             [x \in DOMAIN s1.chapters \cup {id} |->
                                IF x = id THEN NewChapter ELSE s1.chapters[x]]], id, id)
            ELSE s1
      s3 == [s2 EXCEPT !.title = s2.chapters[id].title]
      s4 == setContentMarkdown(s3, s3.chapters[id].content)
  IN [s4 EXCEPT !.cur = id]

\* onStructureItemSelected making a new Chapter at every selection
onStructureItemSelected_AlwaysNew(s, id) ==
  LET s1 == saveCurrentChapter(s)
      s2 == [s1 EXCEPT !.cur = id]
      s3 == setTitle([s2 EXCEPT !.chapters =
                        [x \in DOMAIN s2.chapters \cup {id} |->
                           IF x = id THEN NewChapter ELSE s2.chapters[x]]], id, id)
      s4 == [s3 EXCEPT !.title = s3.chapters[id].title]
  IN setContentMarkdown(s4, s4.chapters[id].content)

\* onStructureItemSelected taking the chapter it leaves out of the map
onStructureItemSelected_DropOld(s, id) ==
  LET s1 == saveCurrentChapter(s)
      s2 == [s1 EXCEPT !.cur = id]
      s3 == IF id \notin DOMAIN s2.chapters
            THEN setTitle([s2 EXCEPT !.chapters =
                             [x \in DOMAIN s2.chapters \cup {id} |->
                                IF x = id THEN NewChapter ELSE s2.chapters[x]]], id, id)
            ELSE s2
      s4 == [s3 EXCEPT !.title = s3.chapters[id].title]
      s5 == setContentMarkdown(s4, s4.chapters[id].content)
  IN [s5 EXCEPT !.chapters = [x \in DOMAIN s5.chapters \ ({s.cur} \ {id}) |-> s5.chapters[x]]]

\* void MainWindow::onStructureItemSelected(const QString&)
onStructureItemSelected(s, id) ==
  LET s1 == saveCurrentChapter(s)
      s2 == [s1 EXCEPT !.cur = id]
      s3 == IF id \notin DOMAIN s2.chapters
            THEN setTitle([s2 EXCEPT !.chapters =
                             [x \in DOMAIN s2.chapters \cup {id} |->
                                IF x = id THEN NewChapter ELSE s2.chapters[x]]], id, id)
            ELSE s2
      s4 == [s3 EXCEPT !.title = s3.chapters[id].title]
  IN setContentMarkdown(s4, s4.chapters[id].content)

\* onImportMarkdown setting the Markdown editor whatever the mode
onImportMarkdown_PlainOnly(s, file) ==
  IF file.name = "" THEN s
  ELSE IF ~file.readable THEN Emit(s, "QMessageBox::warning", "Import Error", <<>>, 0)
  ELSE Emit(setPlainText(s, file.text), "QMessageBox::information", "Import Complete", <<>>, 0)

\* void MainWindow::onImportMarkdown(); file is what the dialog and the file system give
onImportMarkdown(s, file) ==
  IF file.name = "" THEN s
  ELSE IF ~file.readable THEN Emit(s, "QMessageBox::warning", "Import Error", <<>>, 0)
  ELSE Emit(setContentMarkdown(s, file.text), "QMessageBox::information", "Import Complete", <<>>, 0)

\* onExportMarkdown without its test for empty content
onExportMarkdown_NoGuard(s, file) ==
  LET markdown == getContentMarkdown(s)
      s1 == Emit(s, "QFileDialog::getSaveFileName", file.name, <<>>, 0)
  IN IF file.name = "" THEN s1
     ELSE IF ~file.writable
     THEN Emit(s1, "QMessageBox::warning", "Could not open file for writing.", <<>>, 0)
     ELSE Emit(Emit(s1, "QTextStream::operator<<", file.name, markdown, 0),
               "QMessageBox::information", "Export Complete", <<>>, 0)

\* onExportMarkdown showing its success message when the file did not open
onExportMarkdown_NoOpenCheck(s, file) ==
  LET markdown == getContentMarkdown(s)
  IN IF markdown = <<>>
     THEN Emit(s, "QMessageBox::warning", "No content to export.", <<>>, 0)
     ELSE LET s1 == Emit(s, "QFileDialog::getSaveFileName", file.name, <<>>, 0)
          IN IF file.name = "" THEN s1
             ELSE IF ~file.writable
             THEN Emit(s1, "QMessageBox::information", "Export Complete", <<>>, 0)
             ELSE Emit(Emit(s1, "QTextStream::operator<<", file.name, markdown, 0),
                       "QMessageBox::information", "Export Complete", <<>>, 0)

\* void MainWindow::onExportMarkdown(); file is what the dialog and the file system give
onExportMarkdown(s, file) ==
  LET markdown == getContentMarkdown(s)
  IN IF markdown = <<>>
     THEN Emit(s, "QMessageBox::warning", "No content to export.", <<>>, 0)
     ELSE LET s1 == Emit(s, "QFileDialog::getSaveFileName", file.name, <<>>, 0)
          IN IF file.name = "" THEN s1
             ELSE IF ~file.writable
             THEN Emit(s1, "QMessageBox::warning", "Could not open file for writing.", <<>>, 0)
             ELSE Emit(Emit(s1, "QTextStream::operator<<", file.name, markdown, 0),
                       "QMessageBox::information", "Export Complete", <<>>, 0)

(***************************************************************************)
(* Inputs.                                                                  *)
(***************************************************************************)
Corpus ==
  { <<>>,
    <<"draft">>,
    <<"#", " ", " ", "one">>,
    <<"Hello", " ", "**", "world", "**">>,
    <<"one", " ", "two", "\n", "\n", "three">> }

\* the texts the user types, pastes or imports
Inputs == {t \in Corpus : Len(t) <= MaxLen}

\* the files the import dialog can come back with
ImportFiles ==
  {[name |-> "", readable |-> FALSE, text |-> <<>>],
   [name |-> "missing.md", readable |-> FALSE, text |-> <<>>]}
    \cup {[name |-> "in.md", readable |-> TRUE, text |-> t] : t \in Inputs}

\* the files the export dialog can come back with
ExportFiles ==
  {[name |-> "", writable |-> FALSE],
   [name |-> "locked.md", writable |-> FALSE],
   [name |-> "out.md", writable |-> TRUE]}

\* the document of the rich editor with the text colour set on all of it
Coloured(doc) ==
  [i \in 1..Len(doc) |->
     Block(doc[i].kind, [j \in 1..Len(doc[i].spans) |->
                           Span(doc[i].spans[j].style, TRUE, doc[i].spans[j].text)])]

(***************************************************************************)
(* History kept for the properties.                                         *)
(***************************************************************************)
NoContent == <<"<none>">>

\* content stored for the active chapter
Stored(s) == IF s.cur \in DOMAIN s.chapters THEN s.chapters[s.cur].content ELSE NoContent

Op(op, arg) == [op |-> op, arg |-> arg, from |-> m_currentMode]

LastN(q, n) == IF Len(q) > n THEN SubSeq(q, Len(q) - n + 1, Len(q)) ELSE q

NoFlow == [phase |-> 0, id |-> "", text |-> <<>>, by |-> "", arg |-> <<>>, mode |-> ""]

\* after an edit or import of the active chapter
FlowEdited(s, by, arg) ==
  IF s.cur = "" THEN NoFlow
  ELSE [phase |-> 1, id |-> s.cur, text |-> getContentMarkdown(s), by |-> by, arg |-> arg,
        mode |-> s.mode]

\* after a selection
FlowSelected(id) ==
  IF flow.phase \in {1, 2} /\ id # flow.id THEN [flow EXCEPT !.phase = 2]
  ELSE IF flow.phase = 2 /\ id = flow.id THEN [flow EXCEPT !.phase = 3]
  ELSE IF flow.phase = 1 THEN flow
  ELSE NoFlow

\* after a call of setEditorMode: the edited chapter is not the active one, or the flow ends
FlowSwitched == IF flow.phase = 2 THEN flow ELSE NoFlow

\* the new values of the program's variables are the fields of s
Becomes(s) ==
  /\ m_currentMode' = s.mode
  /\ m_markdownEditor' = s.md
  /\ m_richTextEditor' = s.rich
  /\ m_editorStack' = s.stack
  /\ m_titleLabel' = s.title
  /\ chapters' = s.chapters
  /\ currentChapterId' = s.cur
  /\ analysis' = s.analysis
  /\ structureWords' = s.structureWords
  /\ toggleChecked' = s.toggleChecked
  /\ formatEnabled' = s.formatEnabled
  /\ emitted' = s.log
  /\ UNCHANGED <<conv, stat>>

(***************************************************************************)
(* Init and the handlers.                                                   *)
(***************************************************************************)
InitApp ==
  /\ m_currentMode = MarkdownMode
  /\ m_markdownEditor = <<>>
  /\ m_richTextEditor = <<>>
  /\ m_editorStack = MarkdownMode
  /\ m_titleLabel = "Select an item to edit"
  /\ chapters = [x \in {} |-> NewChapter]
  /\ currentChapterId = ""
  /\ analysis = [words |-> 0, chars |-> 0, charsNoSpaces |-> 0, paragraphs |-> 0, avgTenths |-> 0]
  /\ structureWords = 0
  /\ toggleChecked = FALSE
  /\ formatEnabled = FALSE
  /\ emitted = <<>>
  /\ lastOp = [op |-> "", arg |-> "", from |-> MarkdownMode]
  /\ switches = <<>>
  /\ flow = NoFlow

NoConv == [pc |-> "idle", md |-> <<>>, html |-> <<>>, out |-> <<>>]

\* a count not taken yet
NotCounted == [words |-> -1]

NoStat == [text |-> <<>>, stats |-> NotCounted, editor |-> NotCounted, chapter |-> NotCounted]

Init == InitApp /\ conv = NoConv /\ stat = NoStat

\* the user selects an item of the structure tree
StructureItemSelected ==
  \E id \in Ids :
    /\ Becomes(onStructureItemSelected(State, id))
    /\ lastOp' = Op("select", id)
    /\ switches' = <<>>
    /\ flow' = FlowSelected(id)

\* the user types, pastes, cuts, undoes in the Markdown editor: its text becomes t
MarkdownEdited ==
  \E t \in Inputs :
    /\ m_editorStack = MarkdownMode
    /\ t # m_markdownEditor
    /\ LET s == markdownTextChanged([State EXCEPT !.md = t])
       IN Becomes(s) /\ flow' = FlowEdited(s, "edit", <<>>)
    /\ lastOp' = Op("edit", "")
    /\ switches' = <<>>

\* the user types in the rich editor: its document becomes the one that shows t
RichTextEdited ==
  \E t \in Inputs :
    /\ m_editorStack = RichTextMode
    /\ MdToDoc(t) # m_richTextEditor
    /\ LET s == richTextChanged([State EXCEPT !.rich = MdToDoc(t)])
       IN Becomes(s) /\ flow' = FlowEdited(s, "edit", <<>>)
    /\ lastOp' = Op("edit", "")
    /\ switches' = <<>>

\* Format > Text Color on the whole document
TextColorSet ==
  /\ formatEnabled
  /\ m_richTextEditor # <<>>
  /\ Coloured(m_richTextEditor) # m_richTextEditor
  /\ LET s == richTextChanged([State EXCEPT !.rich = Coloured(m_richTextEditor)])
     IN Becomes(s) /\ flow' = FlowEdited(s, "edit", <<>>)
  /\ lastOp' = Op("format", "")
  /\ switches' = <<>>

\* the setEditorMode calls in a row, each with the canonical and stored content before it
Switched(mode) ==
  LastN(Append(switches, [to |-> mode, canon |-> getContentMarkdown(State),
                          stored |-> Stored(State)]), 3)

\* View > Toggle Markdown/Rich Text Mode: Qt flips the check state, then the slot runs
ToggleModeTriggered ==
  /\ Becomes(onToggleModeTriggered([State EXCEPT !.toggleChecked = ~toggleChecked]))
  /\ lastOp' = Op("setEditorMode", IF toggleChecked THEN MarkdownMode ELSE RichTextMode)
  /\ switches' = Switched(IF toggleChecked THEN MarkdownMode ELSE RichTextMode)
  /\ flow' = FlowSwitched

\* a call of the public WritingPanel::setEditorMode
SetEditorMode ==
  \E mode \in EditorModes :
    /\ Becomes(setEditorMode(State, mode))
    /\ lastOp' = Op("setEditorMode", mode)
    /\ switches' = Switched(mode)
    /\ flow' = FlowSwitched

\* File > Import Markdown
ImportMarkdown ==
  \E file \in ImportFiles :
    /\ LET s == onImportMarkdown(State, file)
       IN /\ Becomes(s)
          /\ flow' = IF file.readable THEN FlowEdited(s, "import", file.text) ELSE flow
    /\ lastOp' = Op("import", file.name)
    /\ switches' = <<>>

\* File > Export Markdown
ExportMarkdown ==
  \E file \in ExportFiles :
    /\ Becomes(onExportMarkdown(State, file))
    /\ lastOp' = Op("export", "")
    /\ switches' = <<>>
    /\ UNCHANGED flow

Next ==
  \/ StructureItemSelected
  \/ MarkdownEdited
  \/ RichTextEdited
  \/ TextColorSet
  \/ ToggleModeTriggered
  \/ SetEditorMode
  \/ ImportMarkdown
  \/ ExportMarkdown

Spec == Init /\ [][Next]_vars

(***************************************************************************)
(* The converter on its own: a Markdown text to HTML and back.              *)
(***************************************************************************)
\* the constructs of section 4.2, one of each, and the text between them
Pieces ==
  { <<"a">>, <<" ">>, <<"\n">>,
    <<"**", "a", "**">>, <<"*", "a", "*">>, <<"~~", "a", "~~">>, <<"BACKTICK", "a", "BACKTICK">>,
    <<"#", " ">>, <<"-", " ">>, <<"1.", " ">>, <<">", " ">>,
    <<Rule>>, <<Fence, "\n", "a", "\n", Fence>> }

RECURSIVE TextsOf(_)
\* the texts made of at most n pieces
TextsOf(n) ==
  IF n = 0 THEN {<<>>}
  ELSE LET prev == TextsOf(n - 1) IN prev \cup {p \o q : p \in prev, q \in Pieces}

MdTexts == TextsOf(MaxPieces) \cup {<<"Hello", " ", "**", "world", "**">>}

InitConv ==
  /\ InitApp
  /\ conv \in {[pc |-> "md", md |-> t, html |-> <<>>, out |-> <<>>] : t \in MdTexts}
  /\ stat = NoStat

ConvertToHtml ==
  /\ conv.pc = "md"
  /\ conv' = [conv EXCEPT !.pc = "html", !.html = markdownToHtml(conv.md)]
  /\ UNCHANGED <<core, emitted, lastOp, switches, flow, stat>>

ConvertToMarkdown ==
  /\ conv.pc = "html"
  /\ conv' = [conv EXCEPT !.pc = "done", !.out = htmlToMarkdown(conv.html)]
  /\ UNCHANGED <<core, emitted, lastOp, switches, flow, stat>>

NextConv == ConvertToHtml \/ ConvertToMarkdown

SpecConv == InitConv /\ [][NextConv]_vars

(***************************************************************************)
(* The statistics on their own: a text, counted by AnalysisPanel,           *)
(* WritingPanel and Chapter.                                                *)
(***************************************************************************)
\* a word, a space and a newline
StatSymbols == {"one", " ", "\n"}

StatTexts == UNION {[1..n -> StatSymbols] : n \in 0..MaxText} \cup Corpus

\* the document of the rich editor that shows the plain text t, a paragraph for each line
PlainDoc(t) ==
  LET lines == SplitOn(t, "\n")
  IN [i \in 1..Len(lines) |->
        Block("p", IF lines[i] = <<>> THEN <<>> ELSE <<Span("", FALSE, lines[i])>>)]

InitStats ==
  /\ InitApp
  /\ conv = NoConv
  /\ stat \in {[NoStat EXCEPT !.text = t] : t \in StatTexts}

\* analysisPanel->updateStats(text)
UpdateStats ==
  /\ stat.stats = NotCounted
  /\ stat' = [stat EXCEPT !.stats = updateStats(stat.text)]
  /\ UNCHANGED <<core, emitted, lastOp, switches, flow, conv>>

\* writingPanel->wordCount() with the text in the editor of the current mode
WritingPanelWordCount ==
  /\ stat.editor = NotCounted
  /\ \E mode \in EditorModes :
       stat' = [stat EXCEPT !.editor =
                  [words |-> wordCount([State EXCEPT !.mode = mode, !.md = stat.text,
                                                     !.rich = PlainDoc(stat.text)])]]
  /\ UNCHANGED <<core, emitted, lastOp, switches, flow, conv>>

\* chapter->wordCount() of a chapter with the text for content
ChapterWordCounted ==
  /\ stat.chapter = NotCounted
  /\ stat' = [stat EXCEPT !.chapter =
                [words |-> ChapterWordCount([NewChapter EXCEPT !.content = stat.text])]]
  /\ UNCHANGED <<core, emitted, lastOp, switches, flow, conv>>

NextStats == UpdateStats \/ WritingPanelWordCount \/ ChapterWordCounted

SpecStats == InitStats /\ [][NextStats]_vars

(***************************************************************************)
(* C9: a Markdown text made of the supported constructs, converted to HTML  *)
(* and back, is the text again up to whitespace, and no construct is lost:  *)
(* both texts read as the same document.                                    *)
(***************************************************************************)
C9_RoundTrip ==
  conv.pc = "done" =>
    /\ Normalize(conv.out) = Normalize(conv.md)
    /\ MdToDoc(conv.out) = MdToDoc(conv.md)
    /\ IsMarkdown(conv.out)
    /\ (conv.md = <<"Hello", " ", "**", "world", "**">> => conv.out = conv.md)

C9_Witness ==
  /\ conv.pc = "done"
  /\ conv.md = <<"Hello", " ", "**", "world", "**">>
  /\ conv.html = <<"<p>", "Hello", " ", "<b>", "world", "</b>", "</p>">>

(***************************************************************************)
(* Properties of the application.                                           *)
(***************************************************************************)
\* the entries of a log with the given name
Entries(log, sig) == SelectSeq(log, LAMBDA e : e.sig = sig)

\* two Markdown texts equal up to whitespace that read as the same document
SameUpToNormalization(a, b) == Normalize(a) = Normalize(b) /\ MdToDoc(a) = MdToDoc(b)

(***************************************************************************)
(* C1: select A, edit to canonical content c, select B # A, select A, all   *)
(* in one editor mode: chapter A holds c and the editor shows c, exactly    *)
(* in Markdown mode and up to normalization in RichText mode.               *)
(***************************************************************************)
C1_FlushThenLoad ==
  (flow.phase = 3 /\ flow.by = "edit" /\ flow.mode = m_currentMode) =>
    /\ currentChapterId = flow.id
    /\ flow.id \in DOMAIN chapters
    /\ IF m_currentMode = MarkdownMode
       THEN chapters[flow.id].content = flow.text /\ m_markdownEditor = flow.text
       ELSE /\ SameUpToNormalization(chapters[flow.id].content, flow.text)
            /\ m_richTextEditor = FromHtml(markdownToHtml(flow.text))

C1_Witness ==
  /\ flow.phase = 3
  /\ flow.by = "edit"
  /\ flow.mode = m_currentMode
  /\ m_currentMode = RichTextMode
  /\ flow.text = <<"draft">>
  /\ Cardinality(DOMAIN chapters) >= 2

(***************************************************************************)
(* C2: between handlers, whenever a chapter is active its stored content    *)
(* is the canonical Markdown of the live editor.                            *)
(***************************************************************************)
C2_Autosave ==
  currentChapterId # "" =>
    /\ currentChapterId \in DOMAIN chapters
    /\ chapters[currentChapterId].content = getContentMarkdown(State)

C2_Witness ==
  /\ currentChapterId # ""
  /\ m_currentMode = RichTextMode
  /\ lastOp.op = "format"
  /\ chapters[currentChapterId].content = <<"Hello", " ", "**", "world", "**">>

C4_LazyCreate ==
  [][lastOp'.op = "select" =>
       LET id == lastOp'.arg
           loads == Entries(emitted', "setContentMarkdown")
       IN /\ currentChapterId' = id
          /\ DOMAIN chapters' = DOMAIN chapters \cup {id}
          /\ \A x \in DOMAIN chapters \ {id} : chapters'[x] = chapters[x]
          /\ Len(loads) = 1
          /\ m_titleLabel' = chapters'[id].title
          /\ id \notin DOMAIN chapters =>
               /\ chapters'[id].title = id
               /\ loads[1].text = <<>>
               /\ chapters'[id].content = <<>>
          /\ id \in DOMAIN chapters =>
               /\ chapters'[id].title = chapters[id].title
               /\ loads[1].text = chapters[id].content
               /\ Entries(emitted', "Chapter::titleChanged") = <<>>]_vars

C4_Witness ==
  /\ lastOp.op = "select"
  /\ Len(Entries(emitted, "Chapter::titleChanged")) = 1
  /\ Cardinality(DOMAIN chapters) = 2
  /\ chapters[lastOp.arg] = [title |-> lastOp.arg, content |-> <<>>]
  /\ \E x \in DOMAIN chapters : chapters[x].content # <<>>

(***************************************************************************)
(* C5: saveCurrentChapter, called where the handlers call it (the editor    *)
(* just changed, or not), keeps the active id; a second call changes        *)
(* nothing and emits nothing; with no active chapter the first changes      *)
(* nothing either.                                                          *)
(***************************************************************************)
C5_SaveIdempotent ==
  \A t \in Inputs :
    LET s0 == [State EXCEPT !.md = t, !.rich = MdToDoc(t)]
        s1 == saveCurrentChapter(s0)
        s2 == saveCurrentChapter(s1)
    IN /\ s2 = s1
       /\ s1.cur = s0.cur
       /\ [s1 EXCEPT !.chapters = s0.chapters, !.log = s0.log] = s0
       /\ DOMAIN s1.chapters = DOMAIN s0.chapters
       /\ s0.cur = "" => s1 = s0
       /\ s0.cur # "" => s1.chapters[s0.cur].content = getContentMarkdown(s0)

C5_Witness ==
  /\ currentChapterId # ""
  /\ lastOp.op = "edit"
  /\ Len(Entries(emitted, "Chapter::contentChanged")) = 1
  /\ saveCurrentChapter(State) = State

(***************************************************************************)
(* C6: the editor starts in Markdown mode, and setEditorMode with the       *)
(* current mode changes nothing and emits nothing.                          *)
(***************************************************************************)
C6_SameModeNoOp ==
  /\ (m_currentMode = MarkdownMode /\ m_editorStack = MarkdownMode)
  /\ [][(lastOp'.op = "setEditorMode" /\ lastOp'.arg = m_currentMode) =>
          (UNCHANGED core /\ emitted' = <<>>)]_vars

C6_Witness ==
  /\ lastOp.op = "setEditorMode"
  /\ lastOp.arg = lastOp.from
  /\ lastOp.from = RichTextMode
  /\ m_currentMode = RichTextMode
  /\ emitted = <<>>
  /\ m_richTextEditor # <<>>
  /\ currentChapterId # ""

(***************************************************************************)
(* C7: setEditorMode with another mode converts the old editor's content    *)
(* into the new editor, sets the mode, and emits modeChanged once, last,    *)
(* when the mode and the new editor's content are already the final ones.   *)
(***************************************************************************)
C7_SwitchConverts ==
  [][(lastOp'.op = "setEditorMode" /\ lastOp'.arg # m_currentMode) =>
       LET mode == lastOp'.arg
           changes == Entries(emitted', "modeChanged")
       IN /\ m_currentMode' = mode
          /\ m_editorStack' = mode
          /\ mode = RichTextMode =>
               /\ m_richTextEditor' = FromHtml(markdownToHtml(m_markdownEditor))
               /\ m_markdownEditor' = m_markdownEditor
          /\ mode = MarkdownMode =>
               /\ m_markdownEditor' = htmlToMarkdown(toHtml(m_richTextEditor))
               /\ m_richTextEditor' = m_richTextEditor
          /\ Len(changes) = 1
          /\ emitted'[Len(emitted')].sig = "modeChanged"
          /\ changes[1].mode = mode
          /\ changes[1].text = IF mode = MarkdownMode THEN m_markdownEditor'
                                ELSE htmlToMarkdown(toHtml(m_richTextEditor'))
          /\ toggleChecked' = (mode = RichTextMode)
          /\ formatEnabled' = (mode = RichTextMode)]_vars

C7_Witness ==
  /\ lastOp.op = "setEditorMode"
  /\ lastOp.arg # lastOp.from
  /\ m_currentMode = MarkdownMode
  /\ m_markdownEditor = <<"Hello", " ", "**", "world", "**">>
  /\ Len(Entries(emitted, "modeChanged")) = 1

(***************************************************************************)
(* C8: three setEditorMode calls in a row, to X, to Y # X and to X, leave   *)
(* the canonical content of the editor and the stored content of the        *)
(* active chapter as they were before the first, up to normalization.       *)
(***************************************************************************)
C8_SwitchRoundTrip ==
  (Len(switches) = 3 /\ switches[1].to = switches[3].to /\ switches[2].to # switches[1].to) =>
    /\ SameUpToNormalization(getContentMarkdown(State), switches[1].canon)
    /\ SameUpToNormalization(Stored(State), switches[1].stored)
    /\ m_currentMode = switches[1].to

C8_Witness ==
  /\ Len(switches) = 3
  /\ switches[1].to = switches[3].to
  /\ switches[2].to # switches[1].to
  /\ switches[1].to = MarkdownMode
  /\ switches[1].canon = <<"#", " ", "one">>
  /\ switches[1].stored = <<"#", " ", "one">>
  /\ getContentMarkdown(State) = <<"#", " ", "one">>

(***************************************************************************)
(* C10: a successful import of text t with chapter A active stores the      *)
(* canonical Markdown of t in A (t itself in Markdown mode), keeps A        *)
(* active and leaves the other chapters alone; selecting other chapters     *)
(* and then A loads that content again.                                     *)
(***************************************************************************)
CanonicalOf(t, mode) == IF mode = MarkdownMode THEN t ELSE htmlToMarkdown(markdownToHtml(t))

C10_ImportApplies ==
  /\ [](flow.by = "import" /\ flow.phase = 1 /\ lastOp.op = "import" =>
          /\ currentChapterId = flow.id
          /\ chapters[flow.id].content = CanonicalOf(flow.arg, m_currentMode)
          /\ flow.text = CanonicalOf(flow.arg, m_currentMode))
  /\ [](flow.by = "import" /\ flow.phase = 3 /\ lastOp.op = "select" =>
          /\ currentChapterId = flow.id
          /\ Entries(emitted, "setContentMarkdown")[1].text = CanonicalOf(flow.arg, flow.mode)
          /\ flow.mode = MarkdownMode /\ m_currentMode = MarkdownMode =>
               chapters[flow.id].content = flow.arg /\ m_markdownEditor = flow.arg)
  /\ [][(lastOp'.op = "import" /\ lastOp'.arg = "in.md" /\ currentChapterId # "") =>
          /\ currentChapterId' = currentChapterId
          /\ DOMAIN chapters' = DOMAIN chapters
          /\ \A x \in DOMAIN chapters \ {currentChapterId} : chapters'[x] = chapters[x]]_vars

C10_Witness ==
  /\ flow.by = "import"
  /\ flow.phase = 3
  /\ lastOp.op = "select"
  /\ flow.arg = <<"Hello", " ", "**", "world", "**">>
  /\ chapters[flow.id].content = flow.arg
  /\ m_currentMode = RichTextMode

(***************************************************************************)
(* C11: an export with empty canonical content shows one warning, asks for  *)
(* no file, writes nothing and changes nothing; an export that writes,      *)
(* writes the canonical content once, exactly, and changes nothing either.  *)
(***************************************************************************)
Box(sig, id) == [sig |-> sig, id |-> id, text |-> <<>>, n |-> 0, mode |-> m_currentMode]

C11_ExportGuard ==
  [][lastOp'.op = "export" =>
       LET markdown == getContentMarkdown(State)
           writes == Entries(emitted', "QTextStream::operator<<")
           dialogs == Entries(emitted', "QFileDialog::getSaveFileName")
       IN /\ UNCHANGED core
          /\ markdown = <<>> =>
               emitted' = <<Box("QMessageBox::warning", "No content to export.")>>
          /\ markdown # <<>> => Len(dialogs) = 1
          /\ Len(writes) <= 1
          /\ writes # <<>> =>
               /\ writes[1].text = markdown
               /\ writes[1].text # <<>>
               /\ writes[1].id = dialogs[1].id
               /\ emitted'[Len(emitted')] = Box("QMessageBox::information", "Export Complete")
          /\ (markdown # <<>> /\ dialogs[1].id = "out.md") => Len(writes) = 1]_vars

C11_Witness ==
  /\ lastOp.op = "export"
  /\ emitted = <<Box("QMessageBox::warning", "No content to export.")>>
  /\ m_currentMode = RichTextMode
  /\ currentChapterId # ""
  /\ Cardinality(DOMAIN chapters) = 2
  /\ \E x \in DOMAIN chapters : chapters[x].content # <<>>

(***************************************************************************)
(* C12: an import whose file does not open, an export whose file does not   *)
(* open, and a cancelled dialog change nothing; the first two show one      *)
(* warning and no success message, the last shows nothing; and a warning    *)
(* is shown by these two handlers only: for a file that does not open, and  *)
(* for an export of empty content.                                          *)
(***************************************************************************)
C12_IoFailures ==
  [][LET warnings == Entries(emitted', "QMessageBox::warning")
         infos == Entries(emitted', "QMessageBox::information")
         writes == Entries(emitted', "QTextStream::operator<<")
         dialogs == Entries(emitted', "QFileDialog::getSaveFileName")
         loads == Entries(emitted', "setContentMarkdown")
     IN /\ (lastOp'.op = "import" /\ lastOp'.arg = "missing.md") =>
             /\ emitted' = <<Box("QMessageBox::warning", "Import Error")>>
             /\ UNCHANGED core
        /\ (lastOp'.op = "import" /\ lastOp'.arg = "") =>
             /\ emitted' = <<>>
             /\ UNCHANGED core
        /\ (lastOp'.op = "export" /\ dialogs # <<>> /\ dialogs[1].id = "locked.md") =>
             /\ emitted' = <<dialogs[1],
                             Box("QMessageBox::warning", "Could not open file for writing.")>>
             /\ UNCHANGED core
        /\ (lastOp'.op = "export" /\ dialogs # <<>> /\ dialogs[1].id = "") =>
             /\ emitted' = <<dialogs[1]>>
             /\ UNCHANGED core
        /\ warnings # <<>> =>
             /\ Len(warnings) = 1
             /\ infos = <<>> /\ writes = <<>> /\ loads = <<>>
             /\ UNCHANGED core
             /\ \/ lastOp'.op = "import" /\ lastOp'.arg = "missing.md"
                \/ lastOp'.op = "export" /\ dialogs # <<>> /\ dialogs[1].id = "locked.md"
                \/ lastOp'.op = "export" /\ dialogs = <<>> /\ getContentMarkdown(State) = <<>>
    ]_vars

C12_Witness ==
  /\ lastOp.op = "export"
  /\ Len(emitted) = 2
  /\ emitted[2] = Box("QMessageBox::warning", "Could not open file for writing.")
  /\ m_currentMode = RichTextMode
  /\ currentChapterId # ""
  /\ chapters[currentChapterId].content = <<"Hello", " ", "**", "world", "**">>

(***************************************************************************)
(* C14: updateStats shows the average 0 when there is no paragraph and      *)
(* words / paragraphs (to one decimal) otherwise; a text with a word has a  *)
(* paragraph, and its average is not 0.                                     *)
(***************************************************************************)
C14_NoDivisionByZero ==
  stat.stats # NotCounted =>
    LET r == stat.stats
    IN /\ r.paragraphs >= 0 /\ r.words >= 0
       /\ r.paragraphs = 0 => r.avgTenths = 0
       /\ r.paragraphs > 0 =>
            /\ 2 * r.paragraphs * r.avgTenths - 20 * r.words <= r.paragraphs
            /\ 20 * r.words - 2 * r.paragraphs * r.avgTenths < r.paragraphs
       /\ r.words >= 1 => (r.paragraphs >= 1 /\ r.avgTenths > 0)

C14_Witness ==
  /\ stat.text = <<"\n", " ", "\n">>
  /\ stat.stats # NotCounted
  /\ stat.stats.paragraphs = 0
  /\ stat.stats.avgTenths = 0

(***************************************************************************)
(* C15: the paragraph count of updateStats is the number of non-empty       *)
(* blocks the blank lines (a newline, whitespace or none, a newline; as     *)
(* long as it can be) cut the text into; one two, blank line, three has 3   *)
(* words, 2 paragraphs, 1.5 words a paragraph; a blank line put first,      *)
(* last, or after another adds no paragraph.                                *)
(***************************************************************************)
\* the blank lines of t: first and last newline of a whitespace run that holds two or more
BlankLines(t) ==
  {p \in (1..Len(t)) \X (1..Len(t)) :
     /\ p[1] < p[2]
     /\ t[p[1]] = "\n" /\ t[p[2]] = "\n"
     /\ \A k \in p[1]..p[2] : t[k] \in Whitespace
     /\ \A k \in 1..(p[1] - 1) : (\A j \in k..p[1] : t[j] \in Whitespace) => t[k] # "\n"
     /\ \A k \in (p[2] + 1)..Len(t) : (\A j \in p[2]..k : t[j] \in Whitespace) => t[k] # "\n"}

\* the non-empty blocks between the blank lines
ParagraphsOf(t) ==
  LET B == BlankLines(t)
  IN IF B = {} THEN (IF t = <<>> THEN 0 ELSE 1)
     ELSE Cardinality(B) + 1 - (IF \E p \in B : p[1] = 1 THEN 1 ELSE 0)
                             - (IF \E p \in B : p[2] = Len(t) THEN 1 ELSE 0)

C15_ParagraphCount ==
  stat.stats # NotCounted =>
    LET t == stat.text
        r == stat.stats
        blank == <<"\n", "\n">>
    IN /\ r.paragraphs = ParagraphsOf(t)
       /\ t = <<"one", " ", "two", "\n", "\n", "three">> =>
            (r.words = 3 /\ r.paragraphs = 2 /\ r.avgTenths = 15)
       /\ updateStats(blank \o t).paragraphs <= r.paragraphs
       /\ updateStats(t \o blank).paragraphs <= r.paragraphs
       /\ (t = <<>> \/ t[1] \notin Whitespace) => updateStats(blank \o t).paragraphs = r.paragraphs
       /\ (t = <<>> \/ t[Len(t)] \notin Whitespace) =>
            updateStats(t \o blank).paragraphs = r.paragraphs
       /\ \A p \in BlankLines(t) :
            updateStats(SubSeq(t, 1, p[2]) \o blank \o SubSeq(t, p[2] + 1, Len(t))).paragraphs
              = r.paragraphs

C15_Witness ==
  /\ stat.text = <<"\n", "\n", "one", "\n", "\n">>
  /\ stat.stats # NotCounted
  /\ stat.stats.paragraphs = 1

(***************************************************************************)
(* C16: the word count is the number of maximal runs of non-whitespace; it  *)
(* is the same with whitespace added or removed at either end and with a    *)
(* whitespace run made longer, shorter or of other whitespace; and          *)
(* AnalysisPanel, WritingPanel and Chapter count the same for one text.     *)
(***************************************************************************)
RECURSIVE NonWhitespaceRuns(_, _)
NonWhitespaceRuns(t, inRun) ==
  IF t = <<>> THEN 0
  ELSE IF Head(t) \in Whitespace THEN NonWhitespaceRuns(Tail(t), FALSE)
  ELSE (IF inRun THEN 0 ELSE 1) + NonWhitespaceRuns(Tail(t), TRUE)

C16_WordCount ==
  (stat.stats # NotCounted /\ stat.editor # NotCounted /\ stat.chapter # NotCounted) =>
    LET t == stat.text
        n == stat.stats.words
    IN /\ n = NonWhitespaceRuns(t, FALSE)
       /\ stat.editor.words = n
       /\ stat.chapter.words = n
       /\ updateStats(Trim(t)).words = n
       /\ \A w \in Whitespace :
            /\ updateStats(<<w>> \o t).words = n
            /\ updateStats(t \o <<w>>).words = n
            /\ \A i \in 1..Len(t) :
                 t[i] \in Whitespace =>
                   /\ updateStats([t EXCEPT ![i] = w]).words = n
                   /\ updateStats(SubSeq(t, 1, i) \o <<w>> \o SubSeq(t, i + 1, Len(t))).words = n
                   /\ (i < Len(t) /\ t[i + 1] \in Whitespace) =>
                        updateStats(SubSeq(t, 1, i - 1) \o SubSeq(t, i + 1, Len(t))).words = n

C16_Witness ==
  /\ stat.text = <<" ", "one", "\n", "\n", "one">>
  /\ stat.stats # NotCounted
  /\ stat.stats.words = 2
  /\ stat.editor = [words |-> 2]
  /\ stat.chapter = [words |-> 2]

(***************************************************************************)
(* C13: between handlers, with a chapter active, in either mode, the word   *)
(* count the editor reported last (to the StructurePanel, and of the text   *)
(* given to updateStats) is the word count of the chapter's stored content. *)
(***************************************************************************)
C13_StatsConsistent ==
  currentChapterId # "" =>
    /\ structureWords = ChapterWordCount(chapters[currentChapterId])
    /\ analysis.words = ChapterWordCount(chapters[currentChapterId])

(***************************************************************************)
(* C17: the active id is empty or a key of the chapter map, and once set    *)
(* stays set; a handler adds at most the selected id and removes no key; a  *)
(* chapter keeps its title, and its content unless it is the active one; a  *)
(* selection keeps what every chapter holds (up to normalization) and puts  *)
(* no new chapter in the place of one.                                      *)
(***************************************************************************)
C17_StoreWellFormed ==
  /\ [](currentChapterId = "" \/ currentChapterId \in DOMAIN chapters)
  /\ [](DOMAIN chapters \subseteq Ids)
  /\ [][/\ DOMAIN chapters \subseteq DOMAIN chapters'
        /\ DOMAIN chapters' \subseteq DOMAIN chapters \cup {currentChapterId'}
        /\ currentChapterId # "" => currentChapterId' # ""
        /\ \A id \in DOMAIN chapters :
             /\ chapters'[id].title = chapters[id].title
             /\ id # currentChapterId' => chapters'[id] = chapters[id]
             /\ lastOp'.op = "select" =>
                  SameUpToNormalization(chapters'[id].content, chapters[id].content)
       ]_vars

C17_Witness ==
  /\ lastOp.op = "select"
  /\ m_currentMode = RichTextMode
  /\ Cardinality(DOMAIN chapters) = NumItems
  /\ Entries(emitted, "Chapter::titleChanged") = <<>>
  /\ \A id \in DOMAIN chapters : chapters[id].content # <<>>

(***************************************************************************)
(* C18: in a selection of B while A # B is active, the content change the   *)
(* load of B fires saves into B only: every Chapter::contentChanged after   *)
(* the load is of B, and A holds the canonical content the editor had when  *)
(* the selection began.                                                     *)
(***************************************************************************)
C18_ReentrantAutosave ==
  [][(lastOp'.op = "select" /\ currentChapterId # "" /\ lastOp'.arg # currentChapterId) =>
       LET A == currentChapterId
           B == lastOp'.arg
           k == CHOOSE i \in 1..Len(emitted') : emitted'[i].sig = "setContentMarkdown"
       IN /\ currentChapterId' = B
          /\ emitted'[k].id = B
          /\ \E i \in (k + 1)..Len(emitted') : emitted'[i].sig = "contentChanged"
          /\ \A i \in (k + 1)..Len(emitted') :
               emitted'[i].sig = "Chapter::contentChanged" => emitted'[i].id = B
          /\ chapters'[A].content = getContentMarkdown(State)
          /\ chapters'[A] = chapters[A]]_vars

C18_Witness ==
  /\ lastOp.op = "select"
  /\ Cardinality(DOMAIN chapters) = 2
  /\ \E i \in 1..Len(emitted) :
       emitted[i].sig = "Chapter::contentChanged" /\ emitted[i].id = currentChapterId
  /\ \A x \in DOMAIN chapters : chapters[x].content # <<>>
  /\ \E x \in DOMAIN chapters : chapters[x].content # chapters[currentChapterId].content

(***************************************************************************)
(* C19: when a selection loads a chapter into the editor, the non-empty     *)
(* canonical content the editor held is the content of some chapter, also   *)
(* when no chapter was active.                                              *)
(***************************************************************************)
C19_NoEditDropped ==
  [][lastOp'.op = "select" =>
       LET c == getContentMarkdown(State)
       IN c # <<>> => \E id \in DOMAIN chapters' : chapters'[id].content = c]_vars

(***************************************************************************)
(* C20, as stated: a selection or a call of setEditorMode leaves the stored *)
(* content of every chapter as it is.                                       *)
(***************************************************************************)
C20_OnlyEdits ==
  [][lastOp'.op \in {"select", "setEditorMode"} =>
       \A id \in DOMAIN chapters : chapters'[id].content = chapters[id].content]_vars

(***************************************************************************)
(* C20, amended: an edit, a format change or an import changes the stored   *)
(* content of the active chapter only and an export changes none; a         *)
(* selection or a call of setEditorMode leaves every chapter but the active *)
(* one as it is, and the active one too when it ends in Markdown mode; when *)
(* it ends in RichText mode the active chapter holds its content as         *)
(* before up to normalization.                                              *)
(***************************************************************************)
C20_OnlyEditsUpToNormalization ==
  [][\A id \in DOMAIN chapters :
       /\ id # currentChapterId' => chapters'[id] = chapters[id]
       /\ lastOp'.op \in {"edit", "format", "import"} =>
            (id # currentChapterId => chapters'[id] = chapters[id])
       /\ lastOp'.op = "export" => chapters'[id] = chapters[id]
       /\ lastOp'.op \in {"select", "setEditorMode"} =>
            /\ SameUpToNormalization(chapters'[id].content, chapters[id].content)
            /\ m_currentMode' = MarkdownMode => chapters'[id] = chapters[id]]_vars

C20_Witness ==
  /\ lastOp.op = "select"
  /\ m_currentMode = RichTextMode
  /\ Cardinality(DOMAIN chapters) = 2
  /\ \E i \in 1..Len(emitted) :
       /\ emitted[i].sig = "Chapter::contentChanged"
       /\ emitted[i].id = currentChapterId
       /\ emitted[i].text = <<"#", " ", "one">>
  /\ Entries(emitted, "setContentMarkdown")[1].text = <<"#", " ", " ", "one">>

=============================================================================
